---------------------------- MODULE Spec2Model ----------------------------
(***************************************************************************)
(* Model of grr_response_server/flows/general/memory.py: the flows         *)
(* YaraProcessScan and DumpProcessMemory, and the two helpers              *)
(* _CanonicalizeLegacyWindowsPathSpec and                                  *)
(* _MigrateLegacyDumpFilesToMemoryAreas.                                   *)
(*                                                                         *)
(* Strings the code inspects character by character (paths, file names,    *)
(* regular expressions) are sequences of one-character strings.  A         *)
(* PathSpec is modelled by its path field, the only field the code reads   *)
(* or writes.                                                              *)
(***************************************************************************)
EXTENDS Integers, Sequences, FiniteSets, TLC

VARIABLES
    scanArgs,       \* YaraProcessScan.args (immutable request)
    scanState,      \* position of the scan flow
    scanReplies,    \* results the scan flow has sent (SendReply), in order
    scanError,      \* the error that terminated the scan flow, or NoError
    dumpArgs,       \* DumpProcessMemory.args
    dumpState,      \* position of the dump flow
    dumpReplies,    \* results the dump flow has sent, in order
    dumpError,      \* the error that terminated the dump flow, or NoError
    dumpParent,     \* TRUE when the dump flow was started by the scan flow
    dumpLog,        \* self.Log lines of the dump flow
    outstanding,    \* ids (indices in calls) of delete requests not yet answered
    calls,          \* every CallClient made, in order
    flows,          \* every CallFlow made, in order
    scanResponse,   \* the response batch delivered to ProcessScanResults
    dumpResponse,   \* the response batch delivered to ProcessResults
    fetchResponse,  \* the response batch delivered to DeleteFiles
    deleteAcks,     \* the acknowledgements delivered to LogDeleteFiles: id -> success
    dumpTrace,      \* SendReply, CallClient and CallFlow of the dump flow, as executed
    canonPc,        \* pure-function harness: position
    canonIn,        \* PathSpec handed to the canonicalizer (as left by the call)
    canonOut,       \* its result
    canonOut2,      \* result of canonicalizing the result again
    migPc,          \* pure-function harness: position
    migSrc,         \* what the legacy file names were formatted from
    migIn,          \* response handed to the migrator
    migOut          \* [ok, response]: outcome and the response as left by the call

vars == <<scanArgs, scanState, scanReplies, scanError,
          dumpArgs, dumpState, dumpReplies, dumpError, dumpParent, dumpLog,
          outstanding, calls, flows,
          scanResponse, dumpResponse, fetchResponse, deleteAcks, dumpTrace,
          canonPc, canonIn, canonOut, canonOut2,
          migPc, migSrc, migIn, migOut>>

flowVars == <<scanArgs, scanState, scanReplies, scanError,
              dumpArgs, dumpState, dumpReplies, dumpError, dumpParent, dumpLog,
              outstanding, calls, flows,
              scanResponse, dumpResponse, fetchResponse, deleteAcks, dumpTrace>>
canonVars == <<canonPc, canonIn, canonOut, canonOut2>>
migVars == <<migPc, migSrc, migIn, migOut>>

----------------------------------------------------------------------------
(* Generic helpers *)

Range(s) == {s[i] : i \in 1..Len(s)}

Min(a, b) == IF a < b THEN a ELSE b

\* All sequences over S of length at most n.
BSeq(S, n) == UNION {[1..k -> S] : k \in 0..n}

RECURSIVE Flatten(_)
Flatten(ss) == IF ss = <<>> THEN <<>> ELSE Head(ss) \o Flatten(Tail(ss))

RECURSIVE SumSeq(_)
SumSeq(s) == IF s = <<>> THEN 0 ELSE Head(s) + SumSeq(Tail(s))

\* All orders in which the elements of the finite set S can be listed.
RECURSIVE Listings(_)
Listings(S) ==
    IF S = {} THEN {<<>>}
    ELSE UNION {{<<x>> \o l : l \in Listings(S \ {x})} : x \in S}

----------------------------------------------------------------------------
(* Python string operations used by the helpers *)

\* s[i:j] for 0 <= i <= j: the characters at 0-based positions i .. j-1 that exist.
PySlice(s, i, j) ==
    LET hi == Min(j, Len(s)) IN
    IF i + 1 > hi THEN <<>> ELSE SubSeq(s, i + 1, hi)

\* Position of the first / last occurrence of character c in s (c occurs in s).
FirstIndex(s, c) == CHOOSE i \in 1..Len(s) : s[i] = c /\ \A j \in 1..(i - 1) : s[j] # c
LastIndex(s, c) == CHOOSE i \in 1..Len(s) : s[i] = c /\ \A j \in (i + 1)..Len(s) : s[j] # c

\* s.split(sep) for a one-character separator.
RECURSIVE PySplit(_, _)
PySplit(s, sep) ==
    IF sep \notin Range(s) THEN <<s>>
    ELSE LET i == FirstIndex(s, sep) IN
         <<SubSeq(s, 1, i - 1)>> \o PySplit(SubSeq(s, i + 1, Len(s)), sep)

\* s.rsplit(sep, maxsplit) for a one-character separator.
RECURSIVE PyRSplit(_, _, _)
PyRSplit(s, sep, maxsplit) ==
    IF maxsplit = 0 \/ sep \notin Range(s) THEN <<s>>
    ELSE LET i == LastIndex(s, sep) IN
         PyRSplit(SubSeq(s, 1, i - 1), sep, maxsplit - 1) \o <<SubSeq(s, i + 1, Len(s))>>

\* sep.join(parts)
RECURSIVE PyJoin(_, _)
PyJoin(parts, sep) ==
    IF parts = <<>> THEN <<>>
    ELSE IF Len(parts) = 1 THEN parts[1]
    ELSE parts[1] \o <<sep>> \o PyJoin(Tail(parts), sep)

HexDigits == <<"0", "1", "2", "3", "4", "5", "6", "7", "8", "9",
               "a", "b", "c", "d", "e", "f">>

HexDigitValue(c) == (CHOOSE i \in 1..Len(HexDigits) : HexDigits[i] = c) - 1

\* int(s, 16) succeeds.  Over the alphabet of the model (no sign, blank, "x" or
\* upper-case letter) that is: s is a non-empty string of hexadecimal digits.
PyIntParses16(s) == s # <<>> /\ \A i \in 1..Len(s) : s[i] \in Range(HexDigits)

\* int(s, 16) for a string it parses.
RECURSIVE PyInt16(_)
PyInt16(s) ==
    IF s = <<>> THEN 0
    ELSE 16 * PyInt16(SubSeq(s, 1, Len(s) - 1)) + HexDigitValue(s[Len(s)])

\* "%x" % n and "%d" % n for n >= 0.
RECURSIVE FormatHex(_)
FormatHex(n) ==
    IF n < 16 THEN <<HexDigits[n + 1]>>
    ELSE FormatHex(n \div 16) \o <<HexDigits[(n % 16) + 1]>>

RECURSIVE FormatDec(_)
FormatDec(n) ==
    IF n < 10 THEN <<HexDigits[n + 1]>>
    ELSE FormatDec(n \div 10) \o <<HexDigits[(n % 10) + 1]>>

\* The name old clients gave a dump file:
\* "%s_%d_%x_%x.tmp" % (process.name, pid, start, end), under directory dir.
LegacyDumpFileName(dir, name, pid, start, end, ext) ==
    dir \o name \o <<"_">> \o FormatDec(pid) \o <<"_">> \o FormatHex(start)
        \o <<"_">> \o FormatHex(end) \o <<".">> \o ext

\* PathSpec.Basename() of a one-component PathSpec: posixpath.basename(path),
\* what follows the last "/".
Basename(path) ==
    IF "/" \notin Range(path) THEN path
    ELSE SubSeq(path, LastIndex(path, "/") + 1, Len(path))

----------------------------------------------------------------------------
(* _CanonicalizeLegacyWindowsPathSpec *)

\* The rewrite without the test for "/".
CanonicalizedPathWithoutSlashCheck(path) ==
    IF PySlice(path, 1, 3) = <<":", "\\">>
    THEN <<"/">> \o PyJoin(PySplit(path, "\\"), "/")
    ELSE path

\* The path of the returned PathSpec.
CanonicalizedPath(path) ==
    IF PySlice(path, 1, 3) = <<":", "\\">> /\ "/" \notin Range(path)
    THEN <<"/">> \o PyJoin(PySplit(path, "\\"), "/")
    ELSE path

\* The call: ps is the argument as the call leaves it, canonicalized the
\* returned copy.
CanonicalizeLegacyWindowsPathSpec(path) ==
    [ps |-> path, canonicalized |-> CanonicalizedPath(path)]


----------------------------------------------------------------------------
(* _MigrateLegacyDumpFilesToMemoryAreas *)

\* The parse with the name split at every "_" from the left, the offsets taken
\* as the third and fourth field.
MigrateDumpFileSplitFromLeft(dump_file) ==
    LET byDot == PyRSplit(Basename(dump_file), ".", 1)
        byUnderscore == PySplit(byDot[1], "_")
        start == byUnderscore[3]
        end == byUnderscore[4]
    IN  IF Len(byDot) # 2 THEN [ok |-> FALSE, region |-> <<>>]
        ELSE IF Len(byUnderscore) < 4 THEN [ok |-> FALSE, region |-> <<>>]
        ELSE IF ~PyIntParses16(start) \/ ~PyIntParses16(end)
             THEN [ok |-> FALSE, region |-> <<>>]
        ELSE [ok |-> TRUE,
              region |-> [file |-> CanonicalizeLegacyWindowsPathSpec(dump_file).canonicalized,
                          start |-> PyInt16(start),
                          size |-> PyInt16(end) - PyInt16(start)]]

\* Lines 112-122 for one dump file: [ok, region].  ok is FALSE when one of the
\* two unpacking assignments or one of the two int(.., 16) raises ValueError.
MigrateDumpFile(dump_file) ==
    LET byDot == PyRSplit(Basename(dump_file), ".", 1)
        byUnderscore == PyRSplit(byDot[1], "_", 3)
        start == byUnderscore[3]
        end == byUnderscore[4]
    IN  IF Len(byDot) # 2 THEN [ok |-> FALSE, region |-> <<>>]
        ELSE IF Len(byUnderscore) # 4 THEN [ok |-> FALSE, region |-> <<>>]
        ELSE IF ~PyIntParses16(start) \/ ~PyIntParses16(end)
             THEN [ok |-> FALSE, region |-> <<>>]
        ELSE [ok |-> TRUE,
              region |-> [file |-> CanonicalizeLegacyWindowsPathSpec(dump_file).canonicalized,
                          start |-> PyInt16(start),
                          size |-> PyInt16(end) - PyInt16(start)]]

\* The inner loop with a dump file whose name does not parse skipped
\* instead of ending the migration.
RECURSIVE MigrateDumpFilesFromSkippingMalformed(_, _)
MigrateDumpFilesFromSkippingMalformed(info, k) ==
    IF k > Len(info.dump_files) THEN [ok |-> TRUE, info |-> info]
    ELSE LET r == MigrateDumpFile(info.dump_files[k]) IN
         IF ~r.ok THEN MigrateDumpFilesFromSkippingMalformed(info, k + 1)
         ELSE MigrateDumpFilesFromSkippingMalformed(
                  [info EXCEPT !.memory_regions = Append(@, r.region)], k + 1)

\* The inner loop (lines 109-122) from dump file number k on: [ok, info].
\* It appends to info.memory_regions as it goes and stops at the first
\* exception, leaving what it has appended.
RECURSIVE MigrateDumpFilesFrom(_, _)
MigrateDumpFilesFrom(info, k) ==
    IF k > Len(info.dump_files) THEN [ok |-> TRUE, info |-> info]
    ELSE LET r == MigrateDumpFile(info.dump_files[k]) IN
         IF ~r.ok THEN [ok |-> FALSE, info |-> info]
         ELSE MigrateDumpFilesFrom(
                  [info EXCEPT !.memory_regions = Append(@, r.region)], k + 1)

\* The body of the outer loop for one info (lines 109-124): [ok, info].
MigrateInfo(info) ==
    LET r == MigrateDumpFilesFrom(info, 1) IN
    IF r.ok THEN [ok |-> TRUE, info |-> [r.info EXCEPT !.dump_files = <<>>]]
    ELSE r

\* The outer loop (line 108) from info number k on: [ok, response].
RECURSIVE MigrateInfosFrom(_, _)
MigrateInfosFrom(response, k) ==
    IF k > Len(response.dumped_processes) THEN [ok |-> TRUE, response |-> response]
    ELSE LET r == MigrateInfo(response.dumped_processes[k])
             after == [response EXCEPT !.dumped_processes[k] = r.info]
         IN  IF ~r.ok THEN [ok |-> FALSE, response |-> after]
             ELSE MigrateInfosFrom(after, k + 1)

\* The call: ok is FALSE when it raised; response is the argument as the call
\* leaves it (the migration is in place).
MigrateLegacyDumpFilesToMemoryAreas(response) == MigrateInfosFrom(response, 1)

----------------------------------------------------------------------------
(* Bounds and input domains of the flows *)

\* Size of one scan response: its units plus their matches, errors and misses.
MaxScanSize == 4
\* Size of one dump response: its DumpedProcessInfos plus their memory regions
\* and legacy dump files.
MaxDumpSize == 4
\* The same for the response to a dump flow that the scan flow started.
MaxNestedDumpSize == 2

Pids == {10, 20}

\* The five region-skip flags of a request.
SkipFlagChoices ==
    {[skip_special_regions |-> TRUE, skip_mapped_files |-> FALSE,
      skip_shared_regions |-> TRUE, skip_executable_regions |-> FALSE,
      skip_readonly_regions |-> TRUE]}

\* process_regex values: absent, one that compiles, one that does not.
RegexPatterns == {<<>>, <<"(", "a", ")">>, <<"(", "a">>}

\* re.compile(pattern) returns, for patterns over letters and parentheses:
\* the parentheses are balanced.  depth is the number of groups open so far.
RECURSIVE ParensBalanced(_, _)
ParensBalanced(pattern, depth) ==
    IF pattern = <<>> THEN depth = 0
    ELSE IF Head(pattern) = "(" THEN ParensBalanced(Tail(pattern), depth + 1)
    ELSE IF Head(pattern) = ")" THEN depth > 0 /\ ParensBalanced(Tail(pattern), depth - 1)
    ELSE ParensBalanced(Tail(pattern), depth)

RegexCompiles(pattern) == ParensBalanced(pattern, 0)

\* Status of a failed response.
FailureStatus == <<"GENERIC_ERROR">>

NoError == [kind |-> "none", status |-> <<>>]
NoArgs == [none |-> TRUE]
NoResponse == [none |-> TRUE]

ScanRequests ==
    {[rules |-> r, process_regex |-> re, dump_process_on_match |-> d,
      include_errors_in_results |-> ie, include_misses_in_results |-> im,
      skip |-> sk] :
        r \in {{}, {"rule1"}}, re \in RegexPatterns, d \in BOOLEAN,
        ie \in BOOLEAN, im \in BOOLEAN, sk \in SkipFlagChoices}

\* pids is a repeated field: a list.
DumpRequests ==
    {[dump_all_processes |-> a, pids |-> ps, process_regex |-> re, skip |-> sk] :
        a \in BOOLEAN, ps \in {<<>>, <<10, 20>>},
        re \in RegexPatterns, sk \in SkipFlagChoices}

ScanMatchOf(pid) == [type |-> "ScanMatch", pid |-> pid]
ScanErrorItem == [type |-> "ScanError", pid |-> 30]
ScanMissItem == [type |-> "ScanMiss", pid |-> 40]

UnitSize(u) == 1 + Len(u.matches) + Len(u.errors) + Len(u.misses)

\* The response units of size at most n.
ScanUnits(n) ==
    {u \in [matches : {[i \in 1..Len(ps) |-> ScanMatchOf(ps[i])] : ps \in BSeq(Pids, n - 1)},
            errors : {<<>>, <<ScanErrorItem>>},
            misses : {<<>>, <<ScanMissItem>>}] :
        UnitSize(u) <= n}

\* The sequences of response units of size at most n together.
RECURSIVE ScanUnitSeqs(_)
ScanUnitSeqs(n) ==
    {<<>>} \cup
    (IF n = 0 THEN {}
     ELSE UNION {{<<u>> \o rest : rest \in ScanUnitSeqs(n - UnitSize(u))} :
                   u \in ScanUnits(n)})

\* The response batches a scan call can be answered with.
ScanResponses ==
    {[success |-> FALSE, status |-> FailureStatus, units |-> <<>>]}
    \cup {[success |-> TRUE, status |-> <<"OK">>, units |-> us] :
            us \in ScanUnitSeqs(MaxScanSize)}

DumpedProcess == [pid |-> 10, name |-> "svc"]

\* A region as a current client reports it.
ClientRegion == [file |-> <<"/", "t", "/", "r">>, start |-> 4096, size |-> 16]

\* Dump files as an old client reports them: one whose name has the legacy
\* form (start 0xa, end 0x1a) and one whose name lacks a field.
GoodDumpFile == LegacyDumpFileName(<<"C", ":", "\\">>, <<"p">>, 7, 10, 26, <<"t">>)
BadDumpFile == <<"C", ":", "\\", "p", "_", "7", ".", "t">>

DumpErrorItem == [process |-> [pid |-> 20, name |-> "sys"], error |-> "denied"]

InfoSize(info) == 1 + Len(info.memory_regions) + Len(info.dump_files)

\* The DumpedProcessInfos of size at most n.
DumpedInfos(n) ==
    {i \in [process : {DumpedProcess},
            memory_regions : BSeq({ClientRegion}, n - 1),
            dump_files : BSeq({GoodDumpFile, BadDumpFile}, n - 1)] :
        InfoSize(i) <= n}

\* The sequences of DumpedProcessInfos of size at most n together.
RECURSIVE DumpedInfoSeqs(_)
DumpedInfoSeqs(n) ==
    {<<>>} \cup
    (IF n = 0 THEN {}
     ELSE UNION {{<<i>> \o rest : rest \in DumpedInfoSeqs(n - InfoSize(i))} :
                   i \in DumpedInfos(n)})

\* The responses a dump call can be answered with: a failure, or one unit
\* of size at most n.
DumpResponsesWithin(n) ==
    {[success |-> FALSE, status |-> FailureStatus, units |-> <<>>]}
    \cup {[success |-> TRUE, status |-> <<"OK">>,
           units |-> <<[dumped_processes |-> dp, errors |-> er]>>] :
            dp \in DumpedInfoSeqs(n), er \in {<<>>, <<DumpErrorItem>>}}

DumpResponses == DumpResponsesWithin(MaxDumpSize)
NestedDumpResponses == DumpResponsesWithin(MaxNestedDumpSize)

FetchedFileOf(pathspec) == [type |-> "FetchedFile", pathspec |-> pathspec]

\* The subsequences of s: some of its elements, in its order.
RECURSIVE SubSeqs(_)
SubSeqs(s) ==
    IF s = <<>> THEN {<<>>}
    ELSE LET rest == SubSeqs(Tail(s)) IN rest \cup {<<Head(s)>> \o r : r \in rest}

\* The responses MultiGetFile can complete with for the pathspecs requested:
\* a failure, or one result for each file it fetched.
FetchResponses(pathspecs) ==
    {[success |-> FALSE, status |-> FailureStatus, results |-> <<>>]}
    \cup {[success |-> TRUE, status |-> <<"OK">>,
           results |-> [i \in 1..Len(fs) |-> FetchedFileOf(fs[i])]] :
            fs \in SubSeqs(pathspecs)}

\* 1024 * 1024 * 1024
FileSizeCap == 1073741824

----------------------------------------------------------------------------
(* What the flow runner does around a state method (flow_base)               *)

\* State of a flow after a state method returned: the flow ends when it has
\* no request left to wait for, and waits in `awaiting` otherwise.
StateAfter(requests, awaiting) == IF requests = 0 THEN "Done" ELSE awaiting

\* The error a flow ends with when a state method raised.
Raised(kind, status) == [kind |-> kind, status |-> status]

\* Entries of dumpTrace: one for each SendReply, CallClient and CallFlow.
TraceReply(reply) == [op |-> "SendReply", what |-> reply]
TraceCall(call) == [op |-> "CallClient", what |-> call]
TraceFlow(flow) == [op |-> "CallFlow", what |-> flow]

----------------------------------------------------------------------------
(* YaraProcessScan *)

\* Start without the check of the rules.
ScanStartOutcomeWithoutRulesCheck(args) ==
    IF args.process_regex # <<>> /\ ~RegexCompiles(args.process_regex) THEN "bad_regex"
    ELSE "call_client"

\* Start (lines 35-47): what the checks decide.
ScanStartOutcome(args) ==
    IF args.rules = {} THEN "no_rules"
    ELSE IF args.process_regex # <<>> /\ ~RegexCompiles(args.process_regex) THEN "bad_regex"
    ELSE "call_client"

ScanStart ==
    /\ scanState = "Init"
    /\ LET outcome == ScanStartOutcome(scanArgs) IN
       /\ scanState' = IF outcome = "call_client" THEN "AwaitScan" ELSE "Failed"
       /\ scanError' =
            IF outcome = "no_rules"
            THEN Raised("ConfigurationError",
                        <<"No rules found in the signature specification.">>)
            ELSE IF outcome = "bad_regex" THEN Raised("ConfigurationError", <<"re.error">>)
            ELSE scanError
       /\ calls' =
            IF outcome = "call_client"
            THEN Append(calls, [flow |-> "YaraProcessScan", stub |-> "YaraProcessScan",
                                request |-> scanArgs, next_state |-> "ProcessScanResults"])
            ELSE calls
    /\ UNCHANGED <<scanArgs, scanReplies, dumpArgs, dumpState, dumpReplies, dumpError,
                   dumpParent, dumpLog, outstanding, flows, scanResponse, dumpResponse,
                   fetchResponse, deleteAcks, dumpTrace, canonVars, migVars>>

\* The misses sent whatever include_misses_in_results says.
UnitRepliesWithMissesAlways(args, unit) ==
    unit.matches
        \o (IF args.include_errors_in_results THEN unit.errors ELSE <<>>)
        \o unit.misses

\* Lines 59-74 for one response unit: what is sent, in order.
UnitReplies(args, unit) ==
    unit.matches
        \o (IF args.include_errors_in_results THEN unit.errors ELSE <<>>)
        \o (IF args.include_misses_in_results THEN unit.misses ELSE <<>>)

\* Lines 58-74: what the loop over the responses sends, in order.
RECURSIVE ScanReplies(_, _)
ScanReplies(args, units) ==
    IF units = <<>> THEN <<>>
    ELSE UnitReplies(args, Head(units)) \o ScanReplies(args, Tail(units))

\* pids_to_dump filled whatever dump_process_on_match says.
PidsToDumpIgnoringFlag(args, units) ==
    UNION {{units[i].matches[j].pid : j \in 1..Len(units[i].matches)} :
             i \in 1..Len(units)}

\* Lines 56-66: pids_to_dump after the loop.
PidsToDump(args, units) ==
    IF args.dump_process_on_match
    THEN UNION {{units[i].matches[j].pid : j \in 1..Len(units[i].matches)} :
                  i \in 1..Len(units)}
    ELSE {}

\* pids_to_dump kept as a list: one entry for each match.
PidListsWithDuplicates(args, units) ==
    {Flatten([i \in 1..Len(units) |->
                [j \in 1..Len(units[i].matches) |-> units[i].matches[j].pid]])}

\* Line 79: the values list(pids_to_dump) can have (a set lists its elements
\* once each, in an order the code does not fix).
PidListsToDump(args, units) == Listings(PidsToDump(args, units))

\* Lines 77-85: the arguments of the DumpProcessMemory flow.
DumpFlowArgs(args, pidList) ==
    [dump_all_processes |-> FALSE, pids |-> pidList, process_regex |-> <<>>,
     skip |-> args.skip]

\* The status of the responses ignored.
ProcessScanResultsNeverRaises(responses) == FALSE

\* Line 53: whether the handler raises for these responses.
ProcessScanResultsRaises(responses) == ~responses.success

ProcessScanResults ==
    /\ scanState = "AwaitScan"
    /\ \E responses \in ScanResponses :
        /\ scanResponse' = responses
        /\ IF ProcessScanResultsRaises(responses)
           THEN /\ scanState' = "Failed"
                /\ scanError' = Raised("TaskError", responses.status)
                /\ UNCHANGED <<scanReplies, dumpArgs, dumpState, dumpParent, flows>>
           ELSE /\ scanReplies' = scanReplies \o ScanReplies(scanArgs, responses.units)
                /\ scanError' = scanError
                /\ IF PidsToDump(scanArgs, responses.units) # {}
                   THEN \E pidList \in PidListsToDump(scanArgs, responses.units) :
                           /\ flows' = Append(flows,
                                 [flow |-> "YaraProcessScan", name |-> "DumpProcessMemory",
                                  args |-> DumpFlowArgs(scanArgs, pidList),
                                  next_state |-> "CheckDumpProcessMemoryResults"])
                           /\ dumpArgs' = DumpFlowArgs(scanArgs, pidList)
                           /\ dumpState' = "Init"
                           /\ dumpParent' = TRUE
                           /\ scanState' = StateAfter(1, "AwaitDump")
                   ELSE /\ scanState' = StateAfter(0, "AwaitDump")
                        /\ UNCHANGED <<dumpArgs, dumpState, dumpParent, flows>>
    /\ UNCHANGED <<scanArgs, dumpReplies, dumpError, dumpLog, outstanding, calls,
                   dumpResponse, fetchResponse, deleteAcks, dumpTrace, canonVars, migVars>>

\* The responses of the dump flow sent last first.
ForwardedRepliesReversed(responses) ==
    [i \in 1..Len(responses) |-> responses[Len(responses) + 1 - i]]

\* Lines 91-92: what is sent for the responses of the dump flow.
ForwardedReplies(responses) == responses

\* The results of the scan flow replaced by those of the dump flow.
RepliesAfterForwardingOnly(replies, responses) == ForwardedReplies(responses)

\* Lines 91-92: the results of the scan flow after the loop: each SendReply
\* adds one result after those already sent.
RepliesAfterForwarding(replies, responses) == replies \o ForwardedReplies(responses)

\* A delete request only for the last response, as if made after the loop.
DeleteCallsOutsideLoop(results) ==
    IF results = <<>> THEN <<>>
    ELSE <<[flow |-> "DumpProcessMemory", stub |-> "DeleteGRRTempFiles",
            request |-> results[Len(results)].pathspec, next_state |-> "LogDeleteFiles"]>>

\* The exception raised for a successful acknowledgement instead.
LogDeleteFilesRaisesOnSuccess(success) == success

\* Runs when the dump flow the scan flow started has ended; its responses are
\* the results that flow sent, its status that flow's outcome.
CheckDumpProcessMemoryResults ==
    /\ scanState = "AwaitDump"
    /\ dumpParent
    /\ dumpState \in {"Done", "Failed"}
    /\ IF dumpState = "Failed"
       THEN /\ scanState' = "Failed"
            /\ scanError' = Raised("TaskError", dumpError.status)
            /\ UNCHANGED scanReplies
       ELSE /\ scanReplies' = RepliesAfterForwarding(scanReplies, dumpReplies)
            /\ scanState' = StateAfter(0, "AwaitDump")
            /\ UNCHANGED scanError
    /\ UNCHANGED <<scanArgs, dumpArgs, dumpState, dumpReplies, dumpError, dumpParent,
                   dumpLog, outstanding, calls, flows, scanResponse, dumpResponse,
                   fetchResponse, deleteAcks, dumpTrace, canonVars, migVars>>

----------------------------------------------------------------------------
(* DumpProcessMemory *)

\* Start without the check of the regex.
DumpStartOutcomeWithoutRegexCheck(args) ==
    IF ~(args.dump_all_processes \/ args.pids # <<>> \/ args.process_regex # <<>>)
    THEN "no_processes"
    ELSE "call_client"

\* Start without the check that some process is selected.
DumpStartOutcomeWithoutSelectionCheck(args) ==
    IF args.process_regex # <<>> /\ ~RegexCompiles(args.process_regex) THEN "bad_regex"
    ELSE "call_client"

\* Start (lines 138-148): what the checks decide.
DumpStartOutcome(args) ==
    IF args.process_regex # <<>> /\ ~RegexCompiles(args.process_regex) THEN "bad_regex"
    ELSE IF ~(args.dump_all_processes \/ args.pids # <<>> \/ args.process_regex # <<>>)
         THEN "no_processes"
    ELSE "call_client"

DumpStart ==
    /\ dumpState = "Init"
    /\ LET outcome == DumpStartOutcome(dumpArgs) IN
       /\ dumpState' = IF outcome = "call_client" THEN "AwaitDump" ELSE "Failed"
       /\ dumpError' =
            IF outcome = "bad_regex" THEN Raised("ConfigurationError", <<"re.error">>)
            ELSE IF outcome = "no_processes"
                 THEN Raised("ValidationError", <<"No processes to dump specified.">>)
            ELSE dumpError
       /\ calls' =
            IF outcome = "call_client"
            THEN Append(calls, [flow |-> "DumpProcessMemory", stub |-> "YaraProcessDump",
                                request |-> dumpArgs, next_state |-> "ProcessResults"])
            ELSE calls
       /\ dumpTrace' =
            IF outcome = "call_client"
            THEN Append(dumpTrace,
                        TraceCall([flow |-> "DumpProcessMemory", stub |-> "YaraProcessDump",
                                   request |-> dumpArgs, next_state |-> "ProcessResults"]))
            ELSE dumpTrace
    /\ UNCHANGED <<scanArgs, scanState, scanReplies, scanError, dumpArgs, dumpReplies,
                   dumpParent, dumpLog, outstanding, flows, scanResponse, dumpResponse,
                   fetchResponse, deleteAcks, canonVars, migVars>>

DumpResponseUnitOf(response) == [type |-> "DumpResponseUnit", response |-> response]

\* Lines 162-165: one log line for each error entry.
ErrorLogLines(response) ==
    [i \in 1..Len(response.errors) |->
        <<"Error dumping process", response.errors[i].process.name,
          response.errors[i].process.pid, response.errors[i].error>>]

\* Lines 168-171: one log line for each dumped process.
GettingLogLines(response) ==
    [i \in 1..Len(response.dumped_processes) |->
        <<"Getting dump files", Len(response.dumped_processes[i].memory_regions),
          response.dumped_processes[i].process.name,
          response.dumped_processes[i].process.pid>>]

\* Only the first region of each process taken.
DumpFilesToGetFirstRegionOnly(response) ==
    Flatten([i \in 1..Len(response.dumped_processes) |->
                [j \in 1..Min(1, Len(response.dumped_processes[i].memory_regions)) |->
                    response.dumped_processes[i].memory_regions[j].file]])

\* Lines 167-173: dump_files_to_get after the loops.
DumpFilesToGet(response) ==
    Flatten([i \in 1..Len(response.dumped_processes) |->
                [j \in 1..Len(response.dumped_processes[i].memory_regions) |->
                    response.dumped_processes[i].memory_regions[j].file]])

\* The early return never taken.
NothingToGetNever(dump_files_to_get) == FALSE

\* Line 175: the test of the early return.
NothingToGet(dump_files_to_get) == dump_files_to_get = <<>>

\* Lines 179-184: the arguments of the MultiGetFile flow.
MultiGetFileArgs(pathspecs) ==
    [pathspecs |-> pathspecs, file_size |-> FileSizeCap, use_external_stores |-> FALSE]

ProcessResults ==
    /\ dumpState = "AwaitDump"
    /\ \E responses \in (IF dumpParent THEN NestedDumpResponses ELSE DumpResponses) :
        /\ dumpResponse' = responses
        /\ IF ~responses.success
           THEN /\ dumpState' = "Failed"
                /\ dumpError' = Raised("TaskError", responses.status)
                /\ UNCHANGED <<dumpReplies, dumpLog, flows, dumpTrace>>
           ELSE LET migrated == MigrateLegacyDumpFilesToMemoryAreas(responses.units[1])
                    response == migrated.response
                    dump_files_to_get == DumpFilesToGet(response)
                IN  IF ~migrated.ok
                    THEN /\ dumpState' = "Failed"
                         /\ dumpError' = Raised("ParseError", <<"ValueError">>)
                         /\ UNCHANGED <<dumpReplies, dumpLog, flows, dumpTrace>>
                    ELSE /\ dumpReplies' = Append(dumpReplies, DumpResponseUnitOf(response))
                         /\ dumpError' = dumpError
                         /\ IF NothingToGet(dump_files_to_get)
                            THEN /\ dumpLog' = dumpLog \o ErrorLogLines(response)
                                                \o GettingLogLines(response)
                                                \o << <<"No memory dumped, exiting.">> >>
                                 /\ dumpState' = StateAfter(0, "AwaitFetch")
                                 /\ dumpTrace' = Append(dumpTrace,
                                       TraceReply(DumpResponseUnitOf(response)))
                                 /\ UNCHANGED flows
                            ELSE /\ dumpLog' = dumpLog \o ErrorLogLines(response)
                                                \o GettingLogLines(response)
                                 /\ flows' = Append(flows,
                                       [flow |-> "DumpProcessMemory", name |-> "MultiGetFile",
                                        args |-> MultiGetFileArgs(dump_files_to_get),
                                        next_state |-> "DeleteFiles"])
                                 /\ dumpState' = StateAfter(1, "AwaitFetch")
                                 /\ dumpTrace' = dumpTrace \o
                                       <<TraceReply(DumpResponseUnitOf(response)),
                                         TraceFlow([flow |-> "DumpProcessMemory",
                                                    name |-> "MultiGetFile",
                                                    args |-> MultiGetFileArgs(dump_files_to_get),
                                                    next_state |-> "DeleteFiles"])>>
    /\ UNCHANGED <<scanArgs, scanState, scanReplies, scanError, dumpArgs, dumpParent,
                   outstanding, calls, scanResponse, fetchResponse, deleteAcks,
                   canonVars, migVars>>

\* Lines 194-197: the delete request for one fetched file.
DeleteCallOf(response) ==
    [flow |-> "DumpProcessMemory", stub |-> "DeleteGRRTempFiles",
     request |-> response.pathspec, next_state |-> "LogDeleteFiles"]

\* No delete request made.
DeleteCallsNone(results) == <<>>

\* Lines 191-197: the delete requests of the loop, in order.
DeleteCalls(results) == [i \in 1..Len(results) |-> DeleteCallOf(results[i])]

\* Lines 191-197: what the loop does, in the order it does it: for each
\* response the SendReply, then the CallClient.
DeleteFilesTrace(results) ==
    Flatten([i \in 1..Len(results) |->
                <<TraceReply(results[i]), TraceCall(DeleteCallOf(results[i]))>>])

\* The pathspecs the MultiGetFile flow was started with.
RequestedPathspecs == flows[Len(flows)].args.pathspecs

DeleteFiles ==
    /\ dumpState = "AwaitFetch"
    /\ \E responses \in FetchResponses(RequestedPathspecs) :
        /\ fetchResponse' = responses
        /\ IF ~responses.success
           THEN /\ dumpState' = "Failed"
                /\ dumpError' = Raised("TaskError", responses.status)
                /\ UNCHANGED <<dumpReplies, calls, outstanding, dumpTrace>>
           ELSE /\ dumpReplies' = dumpReplies \o responses.results
                /\ calls' = calls \o DeleteCalls(responses.results)
                /\ outstanding' = (Len(calls) + 1)..(Len(calls) + Len(DeleteCalls(responses.results)))
                /\ dumpState' = StateAfter(Len(DeleteCalls(responses.results)), "AwaitDeletions")
                /\ dumpTrace' = dumpTrace \o DeleteFilesTrace(responses.results)
                /\ UNCHANGED dumpError
    /\ UNCHANGED <<scanArgs, scanState, scanReplies, scanError, dumpArgs, dumpParent,
                   dumpLog, flows, scanResponse, dumpResponse, deleteAcks,
                   canonVars, migVars>>

\* The status of the acknowledgement ignored.
LogDeleteFilesNeverRaises(success) == FALSE

\* Lines 202-203: whether the handler raises for this acknowledgement.
LogDeleteFilesRaises(success) == ~success

\* One acknowledgement is delivered: that of delete request id.
LogDeleteFiles ==
    /\ dumpState = "AwaitDeletions"
    /\ \E id \in outstanding, success \in BOOLEAN :
        /\ outstanding' = outstanding \ {id}
        /\ deleteAcks' = [i \in DOMAIN deleteAcks \cup {id} |->
                             IF i = id THEN success ELSE deleteAcks[i]]
        /\ IF LogDeleteFilesRaises(success)
           THEN /\ dumpState' = "Failed"
                /\ dumpError' = Raised("TaskError",
                                       <<"Could not delete file: ">> \o FailureStatus)
           ELSE /\ dumpState' = StateAfter(Cardinality(outstanding \ {id}), "AwaitDeletions")
                /\ UNCHANGED dumpError
    /\ UNCHANGED <<scanArgs, scanState, scanReplies, scanError, dumpArgs, dumpReplies,
                   dumpParent, dumpLog, calls, flows, scanResponse, dumpResponse,
                   fetchResponse, dumpTrace, canonVars, migVars>>

----------------------------------------------------------------------------
(* The flows: one command per run, on a fresh flow *)

CanonIdle ==
    /\ canonPc = "off"
    /\ canonIn = <<>>
    /\ canonOut = <<>>
    /\ canonOut2 = <<>>

EmptyResponse == [dumped_processes |-> <<>>, errors |-> <<>>]

MigIdle ==
    /\ migPc = "off"
    /\ migSrc = <<>>
    /\ migIn = EmptyResponse
    /\ migOut = [ok |-> TRUE, response |-> EmptyResponse]

FlowsIdle ==
    /\ scanArgs = NoArgs
    /\ scanState = "Idle"
    /\ scanReplies = <<>>
    /\ scanError = NoError
    /\ dumpArgs = NoArgs
    /\ dumpState = "Idle"
    /\ dumpReplies = <<>>
    /\ dumpError = NoError
    /\ dumpParent = FALSE
    /\ dumpLog = <<>>
    /\ outstanding = {}
    /\ calls = <<>>
    /\ flows = <<>>
    /\ scanResponse = NoResponse
    /\ dumpResponse = NoResponse
    /\ fetchResponse = NoResponse
    /\ deleteAcks = <<>>
    /\ dumpTrace = <<>>

Init ==
    /\ \/ /\ scanArgs \in ScanRequests
          /\ scanState = "Init"
          /\ dumpArgs = NoArgs
          /\ dumpState = "Idle"
       \/ /\ scanArgs = NoArgs
          /\ scanState = "Idle"
          /\ dumpArgs \in DumpRequests
          /\ dumpState = "Init"
    /\ scanReplies = <<>>
    /\ scanError = NoError
    /\ dumpReplies = <<>>
    /\ dumpError = NoError
    /\ dumpParent = FALSE
    /\ dumpLog = <<>>
    /\ outstanding = {}
    /\ calls = <<>>
    /\ flows = <<>>
    /\ scanResponse = NoResponse
    /\ dumpResponse = NoResponse
    /\ fetchResponse = NoResponse
    /\ deleteAcks = <<>>
    /\ dumpTrace = <<>>
    /\ CanonIdle
    /\ MigIdle

Next ==
    \/ ScanStart
    \/ ProcessScanResults
    \/ CheckDumpProcessMemoryResults
    \/ DumpStart
    \/ ProcessResults
    \/ DeleteFiles
    \/ LogDeleteFiles

Spec == Init /\ [][Next]_vars

\* The flow runner delivers the response of every request a flow waits for,
\* and runs the flow's next state method: a step that can be taken is taken.
FairSpec == Spec /\ WF_vars(Next)

----------------------------------------------------------------------------
(* The canonicalizer applied to every short path, and again to its result *)

\* Length of a path handed to the canonicalizer.
MaxPathLen == 4

PathChars == {"C", "1", ":", "\\", "/", "a"}

CanonInit ==
    /\ canonPc = "start"
    /\ canonIn \in BSeq(PathChars, MaxPathLen)
    /\ canonOut = <<>>
    /\ canonOut2 = <<>>
    /\ FlowsIdle
    /\ MigIdle

CanonCall ==
    /\ canonPc = "start"
    /\ LET r == CanonicalizeLegacyWindowsPathSpec(canonIn) IN
       /\ canonIn' = r.ps
       /\ canonOut' = r.canonicalized
    /\ canonPc' = "once"
    /\ UNCHANGED <<canonOut2, flowVars, migVars>>

CanonCallAgain ==
    /\ canonPc = "once"
    /\ canonOut2' = CanonicalizeLegacyWindowsPathSpec(canonOut).canonicalized
    /\ canonPc' = "twice"
    /\ UNCHANGED <<canonIn, canonOut, flowVars, migVars>>

CanonNext == CanonCall \/ CanonCallAgain

SpecCanon == CanonInit /\ [][CanonNext]_vars

----------------------------------------------------------------------------
(* The migrator applied to every small response *)

\* Size of a response handed to the migrator: its DumpedProcessInfos plus
\* their memory regions and legacy dump files.
MaxMigSize == 4

\* What old clients formatted dump file names from:
\* <<directory, process name, pid, start, end, extension>>.
LegacySources ==
    {<< <<>>,               <<"p">>,           1234, 6656, 8192, <<"t", "m", "p">> >>,
     << <<"/", "t", "/">>,  <<"a", "_", "b">>, 7,    0,    10,   <<"t">> >>,
     << <<"C", ":", "\\">>, <<"p">>,           12,   10,   10,   <<"t">> >>,
     << <<"C", ":", "\\">>, <<"a", "_", "b">>, 7,    10,   26,   <<"t">> >>,
     << <<"/", "t", "/">>,  <<"_", "q">>,      12,   255,  4096, <<"t">> >>,
     << <<>>,               <<"a", ".", "b">>, 7,    0,    0,    <<"t">> >>}

\* Dump files with their provenance: names of the legacy form, with the
\* offsets they were formatted from, and names that are not of that form
\* (a field missing, a field that is no hexadecimal number, no extension).
LegacyEntries ==
    {[wf |-> TRUE, raw |-> LegacyDumpFileName(x[1], x[2], x[3], x[4], x[5], x[6]),
      start |-> x[4], end |-> x[5]] : x \in LegacySources}
    \cup {[wf |-> FALSE, raw |-> r, start |-> 0, end |-> 0] :
            r \in {<<"p", "_", "7", ".", "t">>,
                   <<"p", "_", "7", "_", "a", "_", "g", ".", "t">>,
                   <<"C", ":", "\\", "p", "_", "7", "_", "a", "_", "b">>}}

SourceInfoSize(info) == 1 + Len(info.memory_regions) + Len(info.dump_files)

SourceInfos(n) ==
    {i \in [process : {DumpedProcess},
            memory_regions : BSeq({ClientRegion}, n - 1),
            dump_files : BSeq(LegacyEntries, n - 1)] :
        SourceInfoSize(i) <= n}

RECURSIVE SourceInfoSeqs(_)
SourceInfoSeqs(n) ==
    {<<>>} \cup
    (IF n = 0 THEN {}
     ELSE UNION {{<<i>> \o rest : rest \in SourceInfoSeqs(n - SourceInfoSize(i))} :
                   i \in SourceInfos(n)})

\* The response a client sends for these infos.
ResponseOf(infos) ==
    [dumped_processes |->
        [k \in 1..Len(infos) |->
            [process |-> infos[k].process,
             memory_regions |-> infos[k].memory_regions,
             dump_files |-> [j \in 1..Len(infos[k].dump_files) |->
                                infos[k].dump_files[j].raw]]],
     errors |-> <<>>]

MigInit ==
    /\ migPc = "start"
    /\ migSrc \in SourceInfoSeqs(MaxMigSize)
    /\ migIn = ResponseOf(migSrc)
    /\ migOut = [ok |-> TRUE, response |-> EmptyResponse]
    /\ FlowsIdle
    /\ CanonIdle

MigCall ==
    /\ migPc = "start"
    /\ migOut' = MigrateLegacyDumpFilesToMemoryAreas(migIn)
    /\ migPc' = "done"
    /\ UNCHANGED <<migSrc, migIn, flowVars, canonVars>>

MigNext == MigCall

SpecMigrate == MigInit /\ [][MigNext]_vars

----------------------------------------------------------------------------
(* Properties *)

ScanRan == scanState # "Idle"
DumpRan == dumpState # "Idle"

\* The calls made with the given client stub, in order.
CallsOf(stub) == SelectSeq(calls, LAMBDA c : c.stub = stub)

\* The flows started with the given flow name, in order.
FlowsOf(name) == SelectSeq(flows, LAMBDA f : f.name = name)

\* The pids of the matches of a scan response, unit after unit, match after match.
MatchPidsOf(responses) ==
    Flatten([i \in 1..Len(responses.units) |->
                [j \in 1..Len(responses.units[i].matches) |->
                    responses.units[i].matches[j].pid]])

ScanTypes == {"ScanMatch", "ScanError", "ScanMiss"}

\* C1: a scan request with an empty rule set never gets past Start: the flow is
\* still to start or has failed with ConfigurationError, it never waits for the
\* scan, and no call or flow has been dispatched.
C1_EmptyRulesFailBeforeDispatch ==
    (ScanRan /\ scanArgs.rules = {}) =>
        /\ scanState \in {"Init", "Failed"}
        /\ scanState = "Failed" => scanError.kind = "ConfigurationError"
        /\ calls = <<>>
        /\ flows = <<>>

C1_Witness ==
    /\ scanState = "Failed"
    /\ scanArgs.rules = {}
    /\ scanError.kind = "ConfigurationError"
    /\ calls = <<>>

\* C2: a request whose process regex is present and does not compile never
\* gets past Start, in the scan flow and in the dump flow alike: the flow is
\* still to start or has failed with ConfigurationError, and nothing has been
\* dispatched, whatever the other fields are.
C2_BadRegexFailsBeforeDispatch ==
    /\ (ScanRan /\ scanArgs.process_regex # <<>> /\ ~RegexCompiles(scanArgs.process_regex)) =>
        /\ scanState \in {"Init", "Failed"}
        /\ scanState = "Failed" => scanError.kind = "ConfigurationError"
        /\ calls = <<>>
        /\ flows = <<>>
    /\ (DumpRan /\ dumpArgs.process_regex # <<>> /\ ~RegexCompiles(dumpArgs.process_regex)) =>
        /\ dumpState \in {"Init", "Failed"}
        /\ dumpState = "Failed" => dumpError.kind = "ConfigurationError"
        /\ calls = <<>>
        /\ flows = <<>>

C2_Witness ==
    /\ dumpState = "Failed"
    /\ dumpError.kind = "ConfigurationError"
    /\ dumpArgs.process_regex # <<>>
    /\ dumpArgs.dump_all_processes
    /\ dumpArgs.pids # <<>>
    /\ calls = <<>>

NoProcessSelected(args) ==
    /\ ~args.dump_all_processes
    /\ args.pids = <<>>
    /\ args.process_regex = <<>>

\* C3: once Start of the dump flow has run: if the request selects no process
\* (dump_all_processes false, no pids, no regex) the flow has failed with
\* ValidationError and no call has been made; if it selects some and its
\* regex, when present, compiles, exactly one dump call has been made, with
\* the request, Start has not failed, and the flow waits in AwaitDump until
\* the response is delivered.
C3_DumpStartValidation ==
    (DumpRan /\ dumpState # "Init") =>
        /\ NoProcessSelected(dumpArgs) =>
            /\ dumpState = "Failed"
            /\ dumpError.kind = "ValidationError"
            /\ CallsOf("YaraProcessDump") = <<>>
            /\ flows = <<>>
        /\ (/\ ~NoProcessSelected(dumpArgs)
            /\ dumpArgs.process_regex # <<>> => RegexCompiles(dumpArgs.process_regex)) =>
            /\ Len(CallsOf("YaraProcessDump")) = 1
            /\ CallsOf("YaraProcessDump")[1].request = dumpArgs
            /\ dumpError.kind \notin {"ValidationError", "ConfigurationError"}
            /\ dumpResponse = NoResponse <=> dumpState = "AwaitDump"

C3_Witness ==
    /\ dumpState = "Failed"
    /\ NoProcessSelected(dumpArgs)
    /\ dumpError.kind = "ValidationError"
    /\ calls = <<>>

\* C4: after a successful scan response with dump_process_on_match set and at
\* least one match, exactly one DumpProcessMemory flow has been started, and
\* its pids list holds each pid of a match once and nothing else.
C4_DumpPidsAreDistinctMatchPids ==
    (/\ ScanRan
     /\ scanResponse # NoResponse
     /\ scanResponse.success
     /\ scanArgs.dump_process_on_match
     /\ MatchPidsOf(scanResponse) # <<>>) =>
        /\ Len(FlowsOf("DumpProcessMemory")) = 1
        /\ LET pids == FlowsOf("DumpProcessMemory")[1].args.pids IN
            /\ Range(pids) = Range(MatchPidsOf(scanResponse))
            /\ \A i, j \in 1..Len(pids) : pids[i] = pids[j] => i = j

C4_Witness ==
    /\ scanResponse # NoResponse
    /\ scanResponse.success
    /\ scanArgs.dump_process_on_match
    /\ MatchPidsOf(scanResponse) = <<10, 20, 10>>
    /\ Len(FlowsOf("DumpProcessMemory")) = 1
    /\ FlowsOf("DumpProcessMemory")[1].args.pids = <<10, 20>>

\* C5: with dump_process_on_match unset the scan flow never waits for a dump
\* flow and none is started; after a successful scan response the flow is
\* Done, and the ScanMatch results it has sent are the matches of the
\* response, one for each, in order.
C5_NoDumpWithoutFlag ==
    (ScanRan /\ ~scanArgs.dump_process_on_match) =>
        /\ scanState # "AwaitDump"
        /\ dumpState = "Idle"
        /\ flows = <<>>
        /\ (scanResponse # NoResponse /\ scanResponse.success) =>
            /\ scanState = "Done"
            /\ LET sent == SelectSeq(scanReplies, LAMBDA r : r.type = "ScanMatch") IN
                /\ Len(sent) = Len(MatchPidsOf(scanResponse))
                /\ \A i \in 1..Len(sent) : sent[i].pid = MatchPidsOf(scanResponse)[i]

C5_Witness ==
    /\ scanState = "Done"
    /\ ~scanArgs.dump_process_on_match
    /\ Len(scanResponse.units) = 1
    /\ MatchPidsOf(scanResponse) = <<10, 20>>
    /\ scanReplies = <<ScanMatchOf(10), ScanMatchOf(20)>>
    /\ flows = <<>>

\* C6: whenever an acknowledgement of a delete request has reported failure,
\* the dump flow has failed with TaskError (it is not Done, and no later
\* acknowledgement changes that), whatever the other acknowledgements were
\* and in whatever order they came.
C6_FailedDeletionFailsTask ==
    (\E id \in DOMAIN deleteAcks : ~deleteAcks[id]) =>
        /\ dumpState = "Failed"
        /\ dumpError.kind = "TaskError"

\* Two files fetched; the second delete request acknowledged first, with
\* success, then the first with failure.
C6_Witness ==
    /\ Len(CallsOf("DeleteGRRTempFiles")) = 2
    /\ Cardinality(DOMAIN deleteAcks) = 2
    /\ \E a, b \in DOMAIN deleteAcks : a < b /\ ~deleteAcks[a] /\ deleteAcks[b]
    /\ dumpState = "Failed"
    /\ dumpError.kind = "TaskError"

\* C7: after a successful dump response in which no DumpedProcessInfo has a
\* memory region or a legacy dump file (so that the migrated unit has no
\* region), the dump flow is Done, it has sent the unit and nothing else, and
\* it has started no MultiGetFile flow and made no delete call, also when the
\* unit has error entries.
C7_NothingDumpedEndsDone ==
    (/\ dumpResponse # NoResponse
     /\ dumpResponse.success
     /\ \A k \in 1..Len(dumpResponse.units[1].dumped_processes) :
            /\ dumpResponse.units[1].dumped_processes[k].memory_regions = <<>>
            /\ dumpResponse.units[1].dumped_processes[k].dump_files = <<>>) =>
        /\ dumpState = "Done"
        /\ dumpError = NoError
        /\ dumpReplies = <<[type |-> "DumpResponseUnit", response |-> dumpResponse.units[1]]>>
        /\ FlowsOf("MultiGetFile") = <<>>
        /\ CallsOf("DeleteGRRTempFiles") = <<>>
        /\ fetchResponse = NoResponse

C7_Witness ==
    /\ dumpState = "Done"
    /\ dumpResponse # NoResponse
    /\ Len(dumpResponse.units[1].dumped_processes) = 1
    /\ dumpResponse.units[1].dumped_processes[1].memory_regions = <<>>
    /\ dumpResponse.units[1].dumped_processes[1].dump_files = <<>>
    /\ dumpResponse.units[1].errors # <<>>
    /\ Len(dumpReplies) = 1
    /\ FlowsOf("MultiGetFile") = <<>>

\* C8: canonicalizing the result of the canonicalizer leaves it as it is, and
\* a path that contains "/" comes back unchanged.
C8_CanonIdempotent ==
    /\ canonPc = "twice" => canonOut2 = canonOut
    /\ (canonPc \in {"once", "twice"} /\ "/" \in Range(canonIn)) => canonOut = canonIn

\* A path that the first call rewrote.
C8_Witness ==
    /\ canonPc = "twice"
    /\ canonOut # canonIn
    /\ canonOut2 = canonOut

\* Every dump file of the response was named in the legacy form.
AllLegacyForm(src) ==
    \A k \in 1..Len(src) : \A j \in 1..Len(src[k].dump_files) : src[k].dump_files[j].wf

\* C9: when every dump file of the response has a name of the legacy form
\* (whatever the process name, underscores included, and the pid), the
\* migration succeeds, and every DumpedProcessInfo ends with no dump file and
\* with its earlier regions followed by one region for each dump file, in
\* order: file the canonicalized path, start the start offset the name was
\* formatted from, size the end offset minus the start offset.
C9_MigratedRegions ==
    (migPc = "done" /\ AllLegacyForm(migSrc)) =>
        /\ migOut.ok
        /\ Len(migOut.response.dumped_processes) = Len(migSrc)
        /\ \A k \in 1..Len(migSrc) :
            LET src == migSrc[k]
                out == migOut.response.dumped_processes[k]
                n == Len(src.memory_regions)
            IN  /\ out.dump_files = <<>>
                /\ out.process = src.process
                /\ Len(out.memory_regions) = n + Len(src.dump_files)
                /\ \A j \in 1..n : out.memory_regions[j] = src.memory_regions[j]
                /\ \A j \in 1..Len(src.dump_files) :
                    /\ out.memory_regions[n + j].file = CanonicalizedPath(src.dump_files[j].raw)
                    /\ out.memory_regions[n + j].start = src.dump_files[j].start
                    /\ out.memory_regions[n + j].size =
                            src.dump_files[j].end - src.dump_files[j].start

\* The file of the spec's example, and one under a Windows directory whose
\* process name holds an underscore, migrated.
C9_Witness ==
    /\ migPc = "done"
    /\ migOut.ok
    /\ Len(migSrc) = 2
    /\ migIn.dumped_processes[1].dump_files =
         << <<"p", "_", "1", "2", "3", "4", "_", "1", "a", "0", "0", "_",
              "2", "0", "0", "0", ".", "t", "m", "p">> >>
    /\ migOut.response.dumped_processes[1].memory_regions =
         << [file |-> migIn.dumped_processes[1].dump_files[1],
             start |-> 6656, size |-> 1536] >>
    /\ migIn.dumped_processes[2].dump_files =
         << <<"C", ":", "\\", "a", "_", "b", "_", "7", "_", "a", "_", "1", "a", ".", "t">> >>
    /\ migOut.response.dumped_processes[2].memory_regions[1] =
         [file |-> <<"/", "C", ":", "/", "a", "_", "b", "_", "7", "_", "a", "_", "1", "a", ".", "t">>,
          start |-> 10, size |-> 16]
    /\ migOut.response.dumped_processes[1].dump_files = <<>>
    /\ migOut.response.dumped_processes[2].dump_files = <<>>

\* In replies, no result of a type in `early` comes after one of another type.
StageOrdered(replies, early) ==
    \A i, j \in 1..Len(replies) :
        (i < j /\ replies[j].type \in early) => replies[i].type \in early

\* C10: in the results of the scan flow every scan match, error and miss
\* comes before every result forwarded from the dump flow; in the results of
\* the dump flow the dump response comes first and only fetched files follow;
\* and a scan flow that is Done after a dump flow has forwarded that flow's
\* results, all of them and in its order.
C10_ResultsOrderedByStage ==
    /\ StageOrdered(scanReplies, ScanTypes)
    /\ StageOrdered(dumpReplies, {"DumpResponseUnit"})
    /\ \A i \in 1..Len(dumpReplies) :
          dumpReplies[i].type = (IF i = 1 THEN "DumpResponseUnit" ELSE "FetchedFile")
    /\ (scanState = "Done" /\ dumpParent) =>
        /\ dumpState = "Done"
        /\ SelectSeq(scanReplies, LAMBDA r : r.type \notin ScanTypes) = dumpReplies

C10_Witness ==
    /\ scanState = "Done"
    /\ dumpParent
    /\ Len(dumpReplies) = 2
    /\ dumpReplies[2].type = "FetchedFile"
    /\ Len(scanReplies) = 4
    /\ scanReplies[2].type = "ScanError"
    /\ scanReplies[3] = dumpReplies[1]
    /\ scanReplies[4] = dumpReplies[2]

\* a is an initial part of b.
IsPrefix(a, b) == Len(a) <= Len(b) /\ SubSeq(b, 1, Len(a)) = a

\* C11: the results a flow has sent are never taken back: in every step,
\* the steps in which a flow fails included, the results of the scan flow
\* and those of the dump flow before the step are an initial part of its
\* results after the step.
C11_StreamOnlyGrows ==
    [][/\ IsPrefix(scanReplies, scanReplies')
       /\ IsPrefix(dumpReplies, dumpReplies')]_vars

\* A scan flow that failed because its dump flow failed on a deletion: the
\* scan results, the dump response and the fetched file are all still there.
C11_Witness ==
    /\ scanState = "Failed"
    /\ dumpParent
    /\ dumpState = "Failed"
    /\ \E id \in DOMAIN deleteAcks : ~deleteAcks[id]
    /\ Len(scanReplies) >= 2
    /\ Len(dumpReplies) = 2
    /\ dumpReplies[2].type = "FetchedFile"

\* The ids of the delete requests made.
DeleteIds == {i \in 1..Len(calls) : calls[i].stub = "DeleteGRRTempFiles"}

\* Every delete request made has been acknowledged with success.
AllDeletesSucceeded ==
    \A id \in DeleteIds : id \in DOMAIN deleteAcks /\ deleteAcks[id]

\* C12: a dump flow that has made delete requests is Done only when none of
\* them is outstanding and each has been acknowledged with success, and once
\* each has been acknowledged with success it is Done.
C12_DoneIffAllDeletesSucceeded ==
    DeleteIds # {} =>
        /\ dumpState = "Done" => (outstanding = {} /\ AllDeletesSucceeded)
        /\ AllDeletesSucceeded => dumpState = "Done"

C12_Witness ==
    /\ dumpState = "Done"
    /\ Cardinality(DeleteIds) = 2
    /\ AllDeletesSucceeded
    /\ outstanding = {}

\* The positions in dumpTrace of the fetched files sent and of the delete
\* requests made, in order.
FetchedReplyPositions ==
    SelectSeq([i \in 1..Len(dumpTrace) |-> i],
              LAMBDA i : /\ dumpTrace[i].op = "SendReply"
                         /\ dumpTrace[i].what.type = "FetchedFile")

DeleteCallPositions ==
    SelectSeq([i \in 1..Len(dumpTrace) |-> i],
              LAMBDA i : /\ dumpTrace[i].op = "CallClient"
                         /\ dumpTrace[i].what.stub = "DeleteGRRTempFiles")

\* C13: delete requests exist only after a successful fetch response was
\* handled; then there is exactly one for each fetched-file result, in
\* order, with that result's pathspec, made after that result was sent; a
\* failed dump call or a failed fetch leaves no delete request, and a
\* successful fetch with no result leaves the flow Done with no delete
\* request.
C13_OneDeletePerFetchedFile ==
    LET deletes == CallsOf("DeleteGRRTempFiles") IN
    /\ (dumpResponse # NoResponse /\ ~dumpResponse.success) => deletes = <<>>
    /\ IF fetchResponse = NoResponse THEN deletes = <<>>
       ELSE IF ~fetchResponse.success THEN deletes = <<>>
       ELSE LET results == fetchResponse.results IN
            /\ Len(deletes) = Len(results)
            /\ Len(DeleteCallPositions) = Len(results)
            /\ Len(FetchedReplyPositions) = Len(results)
            /\ \A i \in 1..Len(results) :
                /\ deletes[i].request = results[i].pathspec
                /\ dumpTrace[FetchedReplyPositions[i]].what = results[i]
                /\ dumpTrace[DeleteCallPositions[i]].what = deletes[i]
                /\ FetchedReplyPositions[i] < DeleteCallPositions[i]
            /\ results = <<>> => dumpState = "Done"

\* Two files with different pathspecs were fetched.
C13_Witness ==
    /\ fetchResponse # NoResponse
    /\ fetchResponse.success
    /\ Len(fetchResponse.results) = 2
    /\ fetchResponse.results[1].pathspec # fetchResponse.results[2].pathspec
    /\ Len(CallsOf("DeleteGRRTempFiles")) = 2

Letters ==
    {"a", "b", "c", "d", "e", "f", "g", "h", "i", "j", "k", "l", "m",
     "n", "o", "p", "q", "r", "s", "t", "u", "v", "w", "x", "y", "z",
     "A", "B", "C", "D", "E", "F", "G", "H", "I", "J", "K", "L", "M",
     "N", "O", "P", "Q", "R", "S", "T", "U", "V", "W", "X", "Y", "Z"}

\* path starts with one letter, a colon and a backslash.
HasDriveLetterForm(path) ==
    /\ Len(path) >= 3
    /\ path[1] \in Letters
    /\ path[2] = ":"
    /\ path[3] = "\\"

\* path with "/" in the place of every backslash.
WithForwardSlashes(path) ==
    [i \in 1..Len(path) |-> IF path[i] = "\\" THEN "/" ELSE path[i]]

\* C14: a call of the canonicalizer leaves its argument as it was, and
\* returns "/" followed by the path with "/" for every backslash when the
\* path starts with one letter, ":" and a backslash and holds no "/", and
\* the path unchanged in every other case, a first character that is no
\* letter included.
C14_RewritesExactlyDriveLetterPaths ==
    [][(canonPc = "start" /\ canonPc' = "once") =>
         /\ canonIn' = canonIn
         /\ canonOut' =
              IF HasDriveLetterForm(canonIn) /\ "/" \notin Range(canonIn)
              THEN <<"/">> \o WithForwardSlashes(canonIn)
              ELSE canonIn]_vars

\* C15: the migration succeeds exactly when every dump file has a name of
\* the legacy form; then every DumpedProcessInfo has its dump files cleared
\* and one region more for each of them, and when it fails the response is
\* left exactly as it was handed in.
C15_MigrationAtomic ==
    migPc = "done" =>
        IF AllLegacyForm(migSrc)
        THEN /\ migOut.ok
             /\ \A k \in 1..Len(migSrc) :
                 /\ migOut.response.dumped_processes[k].dump_files = <<>>
                 /\ Len(migOut.response.dumped_processes[k].memory_regions) =
                      Len(migSrc[k].memory_regions) + Len(migSrc[k].dump_files)
        ELSE /\ ~migOut.ok
             /\ migOut.response = migIn

\* The dump response delivered holds a dump file whose name is not of the
\* legacy form.
DumpResponseHasMalformedName ==
    /\ dumpResponse # NoResponse
    /\ dumpResponse.success
    /\ \E k \in 1..Len(dumpResponse.units[1].dumped_processes) :
          BadDumpFile \in Range(dumpResponse.units[1].dumped_processes[k].dump_files)

\* C16: when the dump response delivered holds a dump file whose name is
\* not of the legacy form, the dump flow has failed with ParseError, has
\* sent no result, has started no MultiGetFile flow and has made no delete
\* request: its only operation is the dump call of Start.
C16_ParseErrorStopsDumpFlow ==
    DumpResponseHasMalformedName =>
        /\ dumpState = "Failed"
        /\ dumpError.kind = "ParseError"
        /\ dumpReplies = <<>>
        /\ FlowsOf("MultiGetFile") = <<>>
        /\ CallsOf("DeleteGRRTempFiles") = <<>>
        /\ Len(dumpTrace) = 1
        /\ dumpTrace[1].op = "CallClient"

\* A response whose first DumpedProcessInfo migrates and whose second holds
\* the malformed name.
C16_Witness ==
    /\ DumpResponseHasMalformedName
    /\ Len(dumpResponse.units[1].dumped_processes) = 2
    /\ dumpResponse.units[1].dumped_processes[1].dump_files = <<GoodDumpFile>>
    /\ dumpResponse.units[1].dumped_processes[2].dump_files = <<BadDumpFile>>
    /\ dumpState = "Failed"

\* Every match, error and miss of the scan response delivered, unit after
\* unit, in each unit the matches, then the errors, then the misses.
AllScanItems ==
    Flatten([i \in 1..Len(scanResponse.units) |->
                scanResponse.units[i].matches \o scanResponse.units[i].errors
                    \o scanResponse.units[i].misses])

\* C17: after a successful scan response was handled the scan results sent
\* are, in order, the items of the response units (unit after unit, in each
\* the matches, the errors, the misses) without the errors unless
\* include_errors_in_results is set and without the misses unless
\* include_misses_in_results is set.
C17_ScanRepliesFollowUnits ==
    (scanResponse # NoResponse /\ scanResponse.success) =>
        /\ SelectSeq(scanReplies, LAMBDA r : r.type \in ScanTypes) =
             SelectSeq(AllScanItems,
                       LAMBDA r : \/ r.type = "ScanMatch"
                                  \/ r.type = "ScanError" /\ scanArgs.include_errors_in_results
                                  \/ r.type = "ScanMiss" /\ scanArgs.include_misses_in_results)
        /\ ~scanArgs.include_errors_in_results =>
              \A i \in 1..Len(scanReplies) : scanReplies[i].type # "ScanError"
        /\ ~scanArgs.include_misses_in_results =>
              \A i \in 1..Len(scanReplies) : scanReplies[i].type # "ScanMiss"

\* Two units: the miss of the first is sent before the match of the second.
C17_Witness ==
    /\ scanResponse # NoResponse
    /\ scanResponse.success
    /\ Len(scanResponse.units) = 2
    /\ scanResponse.units[1].misses # <<>>
    /\ scanResponse.units[2].matches # <<>>
    /\ scanArgs.include_misses_in_results
    /\ Len(scanReplies) >= 2
    /\ scanReplies[1].type = "ScanMiss"
    /\ scanReplies[2].type = "ScanMatch"

\* The error of a flow that failed on a response with the given status.
TaskErrorWith(status) == [kind |-> "TaskError", status |-> status]

\* C18: a failed response fails the flow it is delivered to with TaskError
\* and that response's status, for good, and its handler does nothing else:
\* after a failed scan response the scan flow has no result, no flow and
\* only its scan call; after a failed dump response the dump flow has no
\* result, no flow and only its dump call; after a failed fetch the dump
\* flow has only the dump response as result, the one MultiGetFile flow and
\* no delete request; and after its dump flow failed the scan flow has
\* forwarded no result and has started that one dump flow only.
C18_FailedResponseFailsTask ==
    /\ (scanResponse # NoResponse /\ ~scanResponse.success) =>
        /\ scanState = "Failed"
        /\ scanError = TaskErrorWith(scanResponse.status)
        /\ scanReplies = <<>>
        /\ flows = <<>>
        /\ Len(calls) = 1
        /\ calls[1].stub = "YaraProcessScan"
    /\ (dumpResponse # NoResponse /\ ~dumpResponse.success) =>
        /\ dumpState = "Failed"
        /\ dumpError = TaskErrorWith(dumpResponse.status)
        /\ dumpReplies = <<>>
        /\ FlowsOf("MultiGetFile") = <<>>
        /\ Len(CallsOf("YaraProcessDump")) = 1
        /\ CallsOf("DeleteGRRTempFiles") = <<>>
        /\ Len(dumpTrace) = 1
    /\ (fetchResponse # NoResponse /\ ~fetchResponse.success) =>
        /\ dumpState = "Failed"
        /\ dumpError = TaskErrorWith(fetchResponse.status)
        /\ Len(dumpReplies) = 1
        /\ Len(FlowsOf("MultiGetFile")) = 1
        /\ Len(CallsOf("YaraProcessDump")) = 1
        /\ CallsOf("DeleteGRRTempFiles") = <<>>
        /\ Len(dumpTrace) = 3
    /\ (dumpParent /\ dumpState = "Failed" /\ scanState # "AwaitDump") =>
        /\ scanState = "Failed"
        /\ scanError = TaskErrorWith(dumpError.status)
        /\ \A i \in 1..Len(scanReplies) : scanReplies[i].type \in ScanTypes
        /\ Len(FlowsOf("DumpProcessMemory")) = 1
        /\ Len(CallsOf("YaraProcessScan")) = 1

\* A scan flow failed by its dump flow, which failed on the fetch.
C18_Witness ==
    /\ scanState = "Failed"
    /\ dumpParent
    /\ fetchResponse # NoResponse
    /\ ~fetchResponse.success
    /\ scanError = TaskErrorWith(FailureStatus)
    /\ scanReplies # <<>>

\* The pathspecs of the regions of the dump response delivered, once
\* migrated: process after process, for each the files of the regions it
\* came with, then the canonicalized dump files.
RegionFilesOfDumpResponse ==
    LET infos == dumpResponse.units[1].dumped_processes IN
    Flatten([k \in 1..Len(infos) |->
                [j \in 1..Len(infos[k].memory_regions) |-> infos[k].memory_regions[j].file]
                \o [j \in 1..Len(infos[k].dump_files) |->
                      <<"/">> \o WithForwardSlashes(infos[k].dump_files[j])]])

\* C19: when the dump response delivered migrates and has at least one
\* region afterwards, the dump flow has started exactly one MultiGetFile
\* flow, with the pathspecs of all regions in order (process after process,
\* in each the earlier regions before the migrated ones), file_size
\* 1024 * 1024 * 1024 and use_external_stores false.
C19_FetchesEveryRegionFile ==
    (/\ dumpResponse # NoResponse
     /\ dumpResponse.success
     /\ ~DumpResponseHasMalformedName
     /\ RegionFilesOfDumpResponse # <<>>) =>
        /\ Len(FlowsOf("MultiGetFile")) = 1
        /\ FlowsOf("MultiGetFile")[1].args.pathspecs = RegionFilesOfDumpResponse
        /\ FlowsOf("MultiGetFile")[1].args.file_size = 1024 * 1024 * 1024
        /\ FlowsOf("MultiGetFile")[1].args.use_external_stores = FALSE

\* Two processes: the first with a dump file, the second with a region.
C19_Witness ==
    /\ dumpResponse # NoResponse
    /\ dumpResponse.success
    /\ Len(dumpResponse.units[1].dumped_processes) = 2
    /\ dumpResponse.units[1].dumped_processes[1].dump_files = <<GoodDumpFile>>
    /\ dumpResponse.units[1].dumped_processes[2].memory_regions = <<ClientRegion>>
    /\ Len(FlowsOf("MultiGetFile")) = 1
    /\ FlowsOf("MultiGetFile")[1].args.pathspecs =
         << <<"/", "C", ":", "/", "p", "_", "7", "_", "a", "_", "1", "a", ".", "t">>,
            ClientRegion.file >>

\* The moves of the scan flow: Init, AwaitScan, then Done or AwaitDump, then
\* Done; from each of them to Failed.
ScanEdges ==
    {<<"Init", "AwaitScan">>, <<"AwaitScan", "Done">>, <<"AwaitScan", "AwaitDump">>,
     <<"AwaitDump", "Done">>}
    \cup {<<s, "Failed">> : s \in {"Init", "AwaitScan", "AwaitDump"}}

\* The moves of the dump flow: created in Init, AwaitDump, then Done or
\* AwaitFetch, then AwaitDeletions, then Done; from each of them to Failed.
DumpEdges ==
    {<<"Idle", "Init">>, <<"Init", "AwaitDump">>, <<"AwaitDump", "Done">>,
     <<"AwaitDump", "AwaitFetch">>, <<"AwaitFetch", "AwaitDeletions">>,
     <<"AwaitDeletions", "Done">>}
    \cup {<<s, "Failed">> : s \in {"Init", "AwaitDump", "AwaitFetch", "AwaitDeletions"}}

\* A step moves the scan flow along one of its edges or leaves it where it is.
ScanMovesAlongEdges == scanState' # scanState => <<scanState, scanState'>> \in ScanEdges

\* The same for the dump flow.
DumpMovesAlongEdges == dumpState' # dumpState => <<dumpState, dumpState'>> \in DumpEdges

\* The same, with the move from AwaitFetch to Done of a fetch that returned
\* no result.
DumpMovesAlongEdgesOrEndsAfterEmptyFetch ==
    dumpState' # dumpState =>
        \/ <<dumpState, dumpState'>> \in DumpEdges
        \/ /\ dumpState = "AwaitFetch"
           /\ dumpState' = "Done"
           /\ fetchResponse'.success
           /\ fetchResponse'.results = <<>>

\* A response that was delivered is not delivered again: what a handler was
\* given stays what it was given.
EachResponseHandledOnce ==
    /\ scanResponse # NoResponse => scanResponse' = scanResponse
    /\ dumpResponse # NoResponse => dumpResponse' = dumpResponse
    /\ fetchResponse # NoResponse => fetchResponse' = fetchResponse
    /\ \A id \in DOMAIN deleteAcks :
          id \in DOMAIN deleteAcks' /\ deleteAcks'[id] = deleteAcks[id]

\* Every flow that waits for a response ends, Done or Failed.
FlowsTerminate ==
    /\ (scanState \in {"AwaitScan", "AwaitDump"}) ~> (scanState \in {"Done", "Failed"})
    /\ (dumpState \in {"AwaitDump", "AwaitFetch", "AwaitDeletions"})
            ~> (dumpState \in {"Done", "Failed"})

\* C20 as stated: every flow past Start ends Done or Failed, each response
\* is handled once, and the flows move only along the edges scan: Init,
\* AwaitScan, Done or AwaitDump, Done; dump: Init, AwaitDump, Done or
\* AwaitFetch, AwaitDeletions, Done.
C20_TerminatesAlongStatedEdges ==
    /\ FlowsTerminate
    /\ [][ScanMovesAlongEdges /\ DumpMovesAlongEdges /\ EachResponseHandledOnce]_vars

\* C20, amended: every flow past Start ends Done or Failed, each response is
\* handled once, and the flows move only along those edges and, for the dump
\* flow, from AwaitFetch to Done when the fetch returned no result.
C20_TerminatesAlongEdges ==
    /\ FlowsTerminate
    /\ [][/\ ScanMovesAlongEdges
          /\ DumpMovesAlongEdgesOrEndsAfterEmptyFetch
          /\ EachResponseHandledOnce]_vars

\* A scan flow that went through all its states, over a dump flow that went
\* through all of its own.
C20_Witness ==
    /\ scanState = "Done"
    /\ dumpParent
    /\ dumpState = "Done"
    /\ fetchResponse # NoResponse
    /\ DOMAIN deleteAcks # {}

============================================================================
